---- MODULE Spec2Model ----
(***************************************************************************)
(* Model of the chunk streaming pipeline (src/src/main.rs: the worker      *)
(* threads and the RedrawRequested pass) and of the voxel field analysis   *)
(* (src/src/field.rs: environment, shell, visibility) with the culled mesh *)
(* builder (src/src/renderer/voxels.rs).                                   *)
(***************************************************************************)
EXTENDS Integers, Sequences, FiniteSets, TLC

(***************************************************************************)
(* Bounds of the model.                                                    *)
(***************************************************************************)
\* Worker threads (the program spawns 8, main.rs:100).
NumWorkers == 2
\* Largest value of the "LoD Exp Scale" slider the model tries (the slider
\* goes to 6, main.rs:398; lod_shift starts at 2, main.rs:81).
MaxShift == 2
\* Largest extent of the fields analysed (a chunk has extent world::N = 64).
MaxExtent == 3
\* The occupancy fields analysed differ from the empty field or from the full
\* field in at most MaxDiff cells.
MaxDiff == 1
\* Largest dimension D of the fields constructed (the program uses 2 and 3).
MaxDim == 2
\* Largest fidelity (LOD) Chunk::new is called with; N >> 7 is already 0.
MaxFidelity == 7
\* The model-view-projection matrices tried translate by -MaxOffset..MaxOffset
\* on each axis.
MaxOffset == 2
\* Chunk::new is called with grid positions of components -MaxGrid..MaxGrid.
MaxGrid == 1

\* world::K, imported at main.rs:26: the "Max LoD" slider ranges over 0..=K
\* and the generation radius is K << lod_shift.  The sources do not hold its
\* definition; the model takes this value.
K == 2

\* world::N (world.rs:14): the voxel extent of a chunk at LOD 0.
N == 64

Workers == 1..NumWorkers
Shifts == 0..MaxShift
LODs == 0..K

\* The chunk keys the model follows (Vector3<isize>); the program streams
\* every key of the generation radius in the same way.
Keys == {<<2, 2, 0>>, <<1, 2, 0>>}
\* The cells the viewer visits (camera_index, main.rs:457).
Cells == {<<0, 0, 0>>, <<0, 2, 0>>}

VARIABLES
    task_list,        \* Tasks.task_list: HashMap key -> lod (main.rs:94)
    in_progress,      \* Tasks.in_progress: HashMap key -> lod (main.rs:95)
    chunks,           \* world.chunks: HashMap key -> Chunk, main thread only
    channel,          \* mpsc channel of (key, chunk), worker -> main (main.rs:78)
    player_cell,      \* Arc<Mutex<Vector3>> (main.rs:68)
    required_chunks,  \* required_chunks of the latest frame (main.rs:466)
    main_pc,          \* position of the main thread inside RedrawRequested
    worker,           \* per worker: position in the loop and its local (key, lod)
    settled,          \* history: keys a drain left resident at the required LOD
    field,            \* Field<bool, 3>: the occupancy field under analysis
    env,              \* Field<Env, 3>: field.environment()
    shell,            \* Field<bool, 3>: field.shell(&env)
    vis,              \* Field<Vis, 3>: env.visibility()
    mesh,             \* VoxelMesh: the faces emitted, six vertices each
    pass_mesh,        \* VoxelMesh of voxel_pass.rs for the same shell and visibility
    shell_env,        \* Field<Env, 3>: shell.environment()
    shell_shell,      \* Field<bool, 3>: shell.shell(&shell_env)
    field_pc,         \* the next step of the analysis
    call,             \* <<function, arguments>>: a call of a pure function
    result,           \* what the call returned, NotReturned before it has
    lock,             \* the three Mutexes (main.rs:68, 90, 97): the thread holding each
    thread_pc         \* per thread: the statement it is at, at the grain of the locks

stream_vars == <<task_list, in_progress, chunks, channel, player_cell,
                 required_chunks, main_pc, worker, settled>>
field_vars == <<field, env, shell, vis, mesh, pass_mesh, shell_env, shell_shell,
               field_pc>>
call_vars == <<call, result>>
lock_vars == <<lock, thread_pc>>
vars == <<stream_vars, field_vars, call_vars, lock_vars>>

(***************************************************************************)
(* HashMap helpers.  A map is a function whose domain is its key set.      *)
(***************************************************************************)
EmptyMap == [k \in {} |-> 0]

\* map.get(key) == Some(value)
Has(map, key, value) == key \in DOMAIN map /\ map[key] = value

\* map.insert(key, value)
Insert(map, key, value) ==
    [k \in DOMAIN map \cup {key} |-> IF k = key THEN value ELSE map[k]]

\* map.remove(key)
Remove(map, key) == [k \in DOMAIN map \ {key} |-> map[k]]

\* ((n) as f32).sqrt() as usize: the integer part of the square root.
Isqrt(n) == CHOOSE r \in 0..n : r * r <= n /\ n < (r + 1) * (r + 1)

\* Lines 476-477: the LOD of the chunk at horizontal offset (x, y).
LodAt(x, y, lod_shift) ==
    LET RECURSIVE shr(_, _)
        shr(v, n) == IF n = 0 THEN v ELSE shr(v \div 2, n - 1)
    IN  shr(Isqrt(x * x + y * y), lod_shift)

\* Lines 466-483: the required chunks and their LODs for the viewer cell,
\* among the keys the model follows.
RequiredChunks(camera_index, lod_shift, max_lod) ==
    LET radius == K * 2 ^ lod_shift
        x(key) == key[1] - camera_index[1]
        y(key) == key[2] - camera_index[2]
        inside(key) ==
            /\ -radius <= x(key) /\ x(key) <= radius
            /\ -radius <= y(key) /\ y(key) <= radius
            /\ key[3] \in 0..1
        required == {key \in Keys : inside(key)
                        /\ LodAt(x(key), y(key), lod_shift) <= max_lod}
    IN  [key \in required |-> LodAt(x(key), y(key), lod_shift)]

\* The chunk world::Chunk::new(key, lod, ..) builds; the pipeline reads its lod.
NewChunk(key, lod) == [lod |-> lod]

\* (key - player_cell).magnitude2()
Magnitude2(key, cell) ==
    (key[1] - cell[1]) * (key[1] - cell[1])
    + (key[2] - cell[2]) * (key[2] - cell[2])
    + (key[3] - cell[3]) * (key[3] - cell[3])

\* Lexicographic order on the (distance, lod) keys of min_by_key.
PrioLeq(a, b) == a[1] < b[1] \/ (a[1] = b[1] /\ a[2] <= b[2])

\* Eligible without the in_progress filter: every listed task may be claimed.
EligibleUnfiltered(tl, ip) == DOMAIN tl

\* The filter of the claim step: tasks not in progress at the same LOD.
Eligible(tl, ip) == {k \in DOMAIN tl : ~Has(ip, k, tl[k])}

\* The claim step taking any eligible task.
NextTasksAny(tl, ip, cell) == Eligible(tl, ip)

\* The tasks min_by_key may return (any minimum: HashMap order is arbitrary).
NextTasks(tl, ip, cell) ==
    {k \in Eligible(tl, ip) :
        \A j \in Eligible(tl, ip) :
            PrioLeq(<<Magnitude2(k, cell), tl[k]>>, <<Magnitude2(j, cell), tl[j]>>)}

\* A worker between two tasks; its key and lod are unset.
Idle == [pc |-> "claim", key |-> <<0, 0, 0>>, lod |-> 0]

\* The pipeline after construction (main.rs:68-97): nothing listed, nothing
\* resident, every worker about to claim.
StreamInit ==
    /\ task_list = EmptyMap
    /\ in_progress = EmptyMap
    /\ chunks = EmptyMap
    /\ channel = <<>>
    /\ player_cell = <<0, 0, 0>>
    /\ required_chunks = EmptyMap
    /\ main_pc = "drain"
    /\ worker = [w \in Workers |-> Idle]
    /\ settled = {}


(***************************************************************************)
(* Fields (field.rs).  A Field<T, 3> is its extent and its voxels in        *)
(* storage order; voxels[i + 1] is the element of linear index i.          *)
(***************************************************************************)
\* A field that has not been computed.
NoField == [extent |-> 0, voxels |-> <<>>]

\* CoordinateIter::next, the Some(co) arm: the loop over the axes i, last
\* axis first.  <<>> stands for None.
RECURSIVE Advance(_, _, _)
Advance(co, i, extent) ==
    IF i = 0 THEN <<>>
    ELSE IF co[i] < extent - 1
         THEN [co EXCEPT ![i] = @ + 1]
         ELSE Advance([co EXCEPT ![i] = 0], i - 1, extent)

\* coordinates::<D>(extent): everything the iterator yields, in order, from
\* the first item [0; D].
Coordinates(extent, D) ==
    LET RECURSIVE from(_)
        from(co) ==
            LET next == Advance(co, D, extent)
            IN  IF next = <<>> THEN <<co>> ELSE <<co>> \o from(next)
    IN  from([i \in 1..D |-> 0])

\* Field::linear
Linear(extent, coordinate) ==
    LET D == Len(coordinate)
        RECURSIVE take(_, _)
        take(index, i) ==
            IF i = D THEN index
            ELSE take((index + coordinate[i]) * extent, i + 1)
    IN  take(0, 1) + coordinate[D]

\* Index::index: self.voxels[self.linear(index)]
At(f, co) == f.voxels[Linear(f.extent, co) + 1]

\* The cells of a field of this extent.
CellsOf(extent) ==
    {<<x, y, z>> : x \in 0..extent - 1, y \in 0..extent - 1, z \in 0..extent - 1}

\* Field::new: f[co] is pushed for each coordinate in iteration order.
FieldNew(extent, f) ==
    LET cos == Coordinates(extent, 3)
    IN  [extent |-> extent, voxels |-> [i \in 1..Len(cos) |-> f[cos[i]]]]

\* The flags of Env, each named by the offset (x, y, z) of its neighbour:
\* ZZZ is <<0, 0, 0>>, PZZ is <<1, 0, 0>>, ZZN is <<0, 0, -1>>, ...
EnvAll == {<<dx, dy, dz>> : dx \in {-1, 0, 1}, dy \in {-1, 0, 1}, dz \in {-1, 0, 1}}

\* The flags of Vis.
VisAll == {"XP", "XN", "YP", "YN", "ZP", "ZN"}

\* The guards of flag o in the closure of environment: xp, xn, yp, yn, zp,
\* zn for the non-zero axes of o.
EnvGuard(extent, co, o) ==
    LET guard(i, d) == CASE d = 1  -> co[i] < extent - 1
                         [] d = -1 -> co[i] > 0
                         [] OTHER  -> TRUE
    IN  guard(1, o[1]) /\ guard(2, o[2]) /\ guard(3, o[3])

\* The coordinates the closure of environment indexes self with for the cell
\* co: && evaluates self[[..]] only when the guards before it hold.
EnvReads(extent, co) ==
    {<<co[1] + o[1], co[2] + o[2], co[3] + o[3]>> :
        o \in {d \in EnvAll \ {<<0, 0, 0>>} : EnvGuard(extent, co, d)}}

\* The closure of environment with a neighbour outside the field counted as
\* set.
EnvOfOutsideSet(self, set, co) ==
    {o \in EnvAll :
        IF o = <<0, 0, 0>> THEN set
        ELSE EnvGuard(self.extent, co, o)
                => At(self, <<co[1] + o[1], co[2] + o[2], co[3] + o[3]>>)}

\* The closure of environment: flag o is set iff the guards of its
\* non-zero axes hold (xp, xn, yp, yn, zp, zn) and the neighbour is set.
EnvOf(self, set, co) ==
    {o \in EnvAll :
        /\ EnvGuard(self.extent, co, o)
        /\ IF o = <<0, 0, 0>> THEN set
           ELSE At(self, <<co[1] + o[1], co[2] + o[2], co[3] + o[3]>>)}

\* Field<bool, 3>::environment, through map_with_coordinate:
\* Field::new(extent, |co| f(self[co], co))
Environment(self) ==
    FieldNew(self.extent,
             [co \in CellsOf(self.extent) |-> EnvOf(self, At(self, co), co)])

\* shell that keeps the enclosed cells instead of pruning them.
ShellKeepsEnclosed(self, e) ==
    FieldNew(self.extent,
             [c \in CellsOf(self.extent) |-> At(self, c) /\ At(e, c) = EnvAll])

\* shell that keeps only the cells without any occupied neighbour.
ShellKeepsIsolated(self, e) ==
    FieldNew(self.extent,
             [c \in CellsOf(self.extent) |-> At(self, c) /\ At(e, c) = {<<0, 0, 0>>}])

\* Field<bool, 3>::shell: set && !env[c].is_all()
Shell(self, e) ==
    FieldNew(self.extent,
             [c \in CellsOf(self.extent) |-> At(self, c) /\ ~(At(e, c) = EnvAll)])

\* The closure of visibility without the boundary guards xp, xn, ...
VisOfUnguarded(extent, e, co) ==
    {b \in VisAll :
        CASE b = "XP" -> <<1, 0, 0>> \notin e
          [] b = "XN" -> <<-1, 0, 0>> \notin e
          [] b = "YP" -> <<0, 1, 0>> \notin e
          [] b = "YN" -> <<0, -1, 0>> \notin e
          [] b = "ZP" -> <<0, 0, 1>> \notin e
          [] b = "ZN" -> <<0, 0, -1>> \notin e}

\* The closure of visibility: the mask of the cell co with environment e.
VisOf(extent, e, co) ==
    LET xp == co[1] < extent - 1
        xn == co[1] > 0
        yp == co[2] < extent - 1
        yn == co[2] > 0
        zp == co[3] < extent - 1
        zn == co[3] > 0
    IN  {b \in VisAll :
            CASE b = "XP" -> xp /\ <<1, 0, 0>> \notin e
              [] b = "XN" -> xn /\ <<-1, 0, 0>> \notin e
              [] b = "YP" -> yp /\ <<0, 1, 0>> \notin e
              [] b = "YN" -> yn /\ <<0, -1, 0>> \notin e
              [] b = "ZP" -> zp /\ <<0, 0, 1>> \notin e
              [] b = "ZN" -> zn /\ <<0, 0, -1>> \notin e}

\* Field<Env, 3>::visibility
Visibility(self) ==
    FieldNew(self.extent,
             [co \in CellsOf(self.extent) |-> VisOf(self.extent, At(self, co), co)])

\* The faces of a cell when only the field boundary is tested.
CubeFacesBoundaryOnly(v, co) ==
    LET last == v.extent - 1
    IN  SelectSeq(<<"X_0", "X_1", "Y_0", "Y_1", "Z_0", "Z_1">>,
            LAMBDA face :
                CASE face = "X_0" -> co[1] = 0
                  [] face = "X_1" -> co[1] = last
                  [] face = "Y_0" -> co[2] = 0
                  [] face = "Y_1" -> co[2] = last
                  [] face = "Z_0" -> co[3] = 0
                  [] face = "Z_1" -> co[3] = last)

\* VoxelMesh::new, lines 207-225: the faces pushed for an occupied cell.
CubeFaces(v, co) ==
    LET last == v.extent - 1
        m == At(v, co)
    IN  SelectSeq(<<"X_0", "X_1", "Y_0", "Y_1", "Z_0", "Z_1">>,
            LAMBDA face :
                CASE face = "X_0" -> co[1] = 0 \/ "XN" \in m
                  [] face = "X_1" -> co[1] = last \/ "XP" \in m
                  [] face = "Y_0" -> co[2] = 0 \/ "YN" \in m
                  [] face = "Y_1" -> co[2] = last \/ "YP" \in m
                  [] face = "Z_0" -> co[3] = 0 \/ "ZN" \in m
                  [] face = "Z_1" -> co[3] = last \/ "ZP" \in m)

\* Lines 226-240: a face is two triangles, three vertices each.
FaceVertices(co, face) ==
    [n \in 1..6 |-> [position |-> co, face |-> face, corner |-> n]]

\* VoxelMesh::new: the vertices of the occupied cells in iteration order,
\* and their count.
VoxelMesh(mask, v) ==
    LET cos == Coordinates(mask.extent, 3)
        RECURSIVE ofFaces(_, _)
        ofFaces(co, faces) ==
            IF faces = <<>> THEN <<>>
            ELSE FaceVertices(co, Head(faces)) \o ofFaces(co, Tail(faces))
        RECURSIVE ofCells(_)
        ofCells(i) ==
            IF i > Len(cos) THEN <<>>
            ELSE (IF At(mask, cos[i]) THEN ofFaces(cos[i], CubeFaces(v, cos[i]))
                  ELSE <<>>) \o ofCells(i + 1)
        vertices == ofCells(1)
    IN  [vertices |-> vertices, count |-> Len(vertices)]

\* voxel_pass.rs:127-144: the faces pushed for an occupied cell.
PassCubeFaces(v, co) ==
    LET m == At(v, co)
    IN  SelectSeq(<<"X_1", "X_0", "Y_1", "Y_0", "Z_1", "Z_0">>,
            LAMBDA face :
                CASE face = "X_1" -> "XP" \in m
                  [] face = "X_0" -> "XN" \in m
                  [] face = "Y_1" -> "YP" \in m
                  [] face = "Y_0" -> "YN" \in m
                  [] face = "Z_1" -> "ZP" \in m
                  [] face = "Z_0" -> "ZN" \in m)

\* voxel_pass.rs, VoxelMesh::new (lines 107-214): the vertices of the
\* occupied cells in iteration order, and vertex_count.
VoxelPassMesh(mask, v) ==
    LET cos == Coordinates(mask.extent, 3)
        RECURSIVE ofFaces(_, _)
        ofFaces(co, faces) ==
            IF faces = <<>> THEN <<>>
            ELSE FaceVertices(co, Head(faces)) \o ofFaces(co, Tail(faces))
        RECURSIVE ofCells(_)
        ofCells(i) ==
            IF i > Len(cos) THEN <<>>
            ELSE (IF At(mask, cos[i]) THEN ofFaces(cos[i], PassCubeFaces(v, cos[i]))
                  ELSE <<>>) \o ofCells(i + 1)
        vertices == ofCells(1)
    IN  [vertices |-> vertices, count |-> Len(vertices)]

\* A mesh that has not been built.
NoMesh == [vertices |-> <<>>, count |-> 0]

\* The sets of at most n cells of a field of this extent.
RECURSIVE FewCells(_, _)
FewCells(extent, n) ==
    IF n = 0 THEN {{}}
    ELSE LET fewer == FewCells(extent, n - 1)
         IN  fewer \cup {S \cup {c} : S \in fewer, c \in CellsOf(extent)}

\* The occupancy fields analysed: nearly empty and nearly full ones.
Fields ==
    UNION {{FieldNew(extent, [co \in CellsOf(extent) |-> co \in S])
               : S \in FewCells(extent, MaxDiff)}
           \cup {FieldNew(extent, [co \in CellsOf(extent) |-> co \notin S])
               : S \in FewCells(extent, MaxDiff)}
           : extent \in 1..MaxExtent}

\* No field is being analysed.
FieldAtRest ==
    /\ field = NoField
    /\ env = NoField
    /\ shell = NoField
    /\ vis = NoField
    /\ mesh = NoMesh
    /\ pass_mesh = NoMesh
    /\ shell_env = NoField
    /\ shell_shell = NoField
    /\ field_pc = "done"

\* No call is being made.
NotReturned == <<>>
CallAtRest == call = <<"none", <<>>>> /\ result = NotReturned

\* The threads: the main thread and the workers.
Main == 0
Threads == {Main} \cup Workers

\* No thread holds the Mutex.
Nobody == -1

\* After construction (main.rs:68-97, 262): the three Mutexes are free, every
\* worker is at the top of its loop and the main thread at the top of a frame.
LocksAtRest ==
    /\ lock = [tasks |-> Nobody, player_cell |-> Nobody, chunk_generation_time |-> Nobody]
    /\ thread_pc = [t \in Threads |-> IF t = Main THEN "ui" ELSE "tasks.lock"]

Init == StreamInit /\ FieldAtRest /\ CallAtRest /\ LocksAtRest

(***************************************************************************)
(* Worker loop (main.rs:108-164).                                          *)
(***************************************************************************)
\* The claim step taking the task off the task list.
ClaimRemovesTask(w) ==
    /\ worker[w].pc = "claim"
    /\ \E key \in NextTasks(task_list, in_progress, player_cell) :
        /\ in_progress' = Insert(in_progress, key, task_list[key])
        /\ task_list' = Remove(task_list, key)
        /\ worker' = [worker EXCEPT ![w] =
                        [pc |-> "generate", key |-> key, lod |-> task_list[key]]]
    /\ UNCHANGED <<chunks, channel, player_cell, required_chunks,
                   main_pc, settled, field_vars, call_vars, lock_vars>>

\* Lines 109-136: under the tasks lock, pick the next task and mark it.
Claim(w) ==
    /\ worker[w].pc = "claim"
    /\ \E key \in NextTasks(task_list, in_progress, player_cell) :
        /\ in_progress' = Insert(in_progress, key, task_list[key])
        /\ worker' = [worker EXCEPT ![w] =
                        [pc |-> "generate", key |-> key, lod |-> task_list[key]]]
    /\ UNCHANGED <<task_list, chunks, channel, player_cell, required_chunks,
                   main_pc, settled, field_vars, call_vars, lock_vars>>

\* Lines 128-132: no task available, yield and retry.
Yield(w) ==
    /\ worker[w].pc = "claim"
    /\ NextTasks(task_list, in_progress, player_cell) = {}
    /\ UNCHANGED vars

\* The worker's validate/publish step with one change: CHECK(key, lod) decides
\* whether the chunk is sent, in place of task_list.get(&key) == Some(lod).
PublishWith(w, CHECK(_, _)) ==
    LET key == worker[w].key
        lod == worker[w].lod
    IN  /\ worker[w].pc = "generate"
        /\ in_progress' = IF Has(in_progress, key, lod)
                          THEN Remove(in_progress, key)
                          ELSE in_progress
        /\ IF CHECK(key, lod)
           THEN /\ task_list' = Remove(task_list, key)
                /\ channel' = Append(channel, <<key, NewChunk(key, lod)>>)
           ELSE UNCHANGED <<task_list, channel>>
        /\ worker' = [worker EXCEPT ![w] = Idle]
        /\ UNCHANGED <<chunks, player_cell, required_chunks, main_pc, settled,
                       field_vars, call_vars, lock_vars>>

\* Publish that sends whenever the key is listed, whatever the listed LOD.
PublishIfListed(w) ==
    LET listed(key, lod) == key \in DOMAIN task_list IN PublishWith(w, listed)

\* Publish that validates against in_progress instead of task_list.
PublishIfInProgress(w) ==
    LET claimed(key, lod) == Has(in_progress, key, lod) IN PublishWith(w, claimed)

\* Publish that never validates: every finished chunk is sent.
PublishUnchecked(w) ==
    LET always(key, lod) == TRUE IN PublishWith(w, always)

\* Publish that clears the in_progress entry only when it sends the chunk.
PublishClearsIfSent(w) ==
    LET key == worker[w].key
        lod == worker[w].lod
    IN  /\ worker[w].pc = "generate"
        /\ IF Has(task_list, key, lod)
           THEN /\ task_list' = Remove(task_list, key)
                /\ channel' = Append(channel, <<key, NewChunk(key, lod)>>)
                /\ in_progress' = IF Has(in_progress, key, lod)
                                  THEN Remove(in_progress, key)
                                  ELSE in_progress
           ELSE UNCHANGED <<task_list, channel, in_progress>>
        /\ worker' = [worker EXCEPT ![w] = Idle]
        /\ UNCHANGED <<chunks, player_cell, required_chunks, main_pc, settled,
                       field_vars, call_vars, lock_vars>>

\* Lines 138-163: the generation ends (it ran with no lock held); under the
\* tasks lock, validate the task and publish the chunk.
Publish(w) ==
    LET key == worker[w].key
        lod == worker[w].lod
    IN  /\ worker[w].pc = "generate"
        /\ in_progress' = IF Has(in_progress, key, lod)
                          THEN Remove(in_progress, key)
                          ELSE in_progress
        /\ IF Has(task_list, key, lod)
           THEN /\ task_list' = Remove(task_list, key)
                /\ channel' = Append(channel, <<key, NewChunk(key, lod)>>)
           ELSE UNCHANGED <<task_list, channel>>
        /\ worker' = [worker EXCEPT ![w] = Idle]
        /\ UNCHANGED <<chunks, player_cell, required_chunks, main_pc, settled,
                       field_vars, call_vars, lock_vars>>

(***************************************************************************)
(* Main thread, RedrawRequested (main.rs:457-526).                         *)
(***************************************************************************)
\* world.chunks after inserting the received messages in order.
RECURSIVE InsertAll(_, _)
InsertAll(map, msgs) ==
    IF msgs = <<>> THEN map
    ELSE InsertAll(Insert(map, Head(msgs)[1], Head(msgs)[2]), Tail(msgs))

\* chunk.lod == lod for the resident chunk of key
ResidentAt(map, key, lod) == key \in DOMAIN map /\ map[key].lod = lod

\* Lines 457-468: drain the result channel into world.chunks and publish the
\* viewer cell of this frame.
Drain(cell) ==
    /\ main_pc = "drain"
    /\ chunks' = InsertAll(chunks, channel)
    /\ channel' = <<>>
    /\ player_cell' = cell
    /\ main_pc' = "record"
    /\ settled' = {k \in Keys : k \in DOMAIN required_chunks
                                /\ ResidentAt(chunks', k, required_chunks[k])}
    /\ UNCHANGED <<task_list, in_progress, required_chunks, worker, field_vars,
                   call_vars, lock_vars>>

\* retain that keeps every chunk: nothing is evicted.
RetainEverything(map, required) == map

\* Lines 486-488: world.chunks.retain(|key, _| required.contains_key(key))
RetainRequired(map, required) ==
    [k \in DOMAIN map \cap DOMAIN required |-> map[k]]

\* The pass without the cancellation: every task stays listed.
CancelNothing(tl, required) == tl

\* Lines 496-499: cancel outdated tasks.
CancelOutdated(tl, required) ==
    [k \in {j \in DOMAIN tl : Has(required, j, tl[j])} |-> tl[k]]

\* RecordNew without the test of the resident chunk.
RecordNewIgnoringResident(tl, required, resident) ==
    LET new == {k \in DOMAIN required : ~Has(tl, k, required[k])}
    IN  [k \in DOMAIN tl \cup new |-> IF k \in new THEN required[k] ELSE tl[k]]

\* RecordNew that also skips the chunks in progress at the required LOD.
RecordNewUnlessInProgress(tl, required, resident) ==
    LET skip(k) == \/ Has(tl, k, required[k])
                   \/ ResidentAt(resident, k, required[k])
                   \/ Has(in_progress, k, required[k])
        new == {k \in DOMAIN required : ~skip(k)}
    IN  [k \in DOMAIN tl \cup new |-> IF k \in new THEN required[k] ELSE tl[k]]

\* Lines 501-517: record a task for every required chunk that is neither
\* listed at that LOD nor resident at that LOD.
RecordNew(tl, required, resident) ==
    LET skip(k) == Has(tl, k, required[k]) \/ ResidentAt(resident, k, required[k])
        new == {k \in DOMAIN required : ~skip(k)}
    IN  [k \in DOMAIN tl \cup new |-> IF k \in new THEN required[k] ELSE tl[k]]

\* Lines 466-526: gather the required chunks of this frame, evict the chunks
\* that are no longer required and, under the tasks lock, reconcile the task
\* list.  The required set and world.chunks belong to the main thread alone,
\* so the pass is one step as far as the workers can tell.  lod_shift and
\* max_lod are what the sliders (main.rs:397-398) hold in this frame.
RecordTasks(lod_shift, max_lod) ==
    LET required == RequiredChunks(player_cell, lod_shift, max_lod)
    IN  /\ main_pc = "record"
        /\ required_chunks' = required
        /\ chunks' = RetainRequired(chunks, required)
        /\ task_list' = RecordNew(CancelOutdated(task_list, required),
                                  required, chunks')
        /\ main_pc' = "drain"
        /\ settled' = {k \in settled : k \in DOMAIN required
                                       /\ required[k] = required_chunks[k]}
        /\ UNCHANGED <<in_progress, channel, player_cell, worker, field_vars,
                       call_vars, lock_vars>>

Next ==
    \/ \E w \in Workers : Claim(w)
    \/ \E w \in Workers : Yield(w)
    \/ \E w \in Workers : Publish(w)
    \/ \E cell \in Cells : Drain(cell)
    \/ \E lod_shift \in Shifts, max_lod \in LODs : RecordTasks(lod_shift, max_lod)

Spec == Init /\ [][Next]_vars

(***************************************************************************)
(* The supersession scenario: key K0 is required at LOD 0 until a worker   *)
(* has claimed it, may then be required at LOD 2, and is required at LOD 2  *)
(* ever after.  The viewer and the other keys are free.  Workers and       *)
(* frames are scheduled fairly: the worker threads loop forever, a         *)
(* generation ends, the locks are granted and the event loop keeps         *)
(* redrawing.                                                              *)
(***************************************************************************)
K0 == <<2, 2, 0>>
Generating(key, lod) ==
    \E w \in Workers : worker[w] = [pc |-> "generate", key |-> key, lod |-> lod]

\* The required sets the scenario allows in the coming pass.
ScenarioRequired(required) ==
    IF Has(required_chunks, K0, 2)
    THEN Has(required, K0, 2)
    ELSE \/ Has(required, K0, 0)
         \/ Generating(K0, 0) /\ Has(required, K0, 2)

\* The viewer cells from which the scenario can go on.
ScenarioCells ==
    {cell \in Cells :
        \E lod_shift \in Shifts, max_lod \in LODs :
            LET required == RequiredChunks(cell, lod_shift, max_lod)
            IN  IF Has(required_chunks, K0, 2)
                THEN Has(required, K0, 2)
                ELSE Has(required, K0, 0)}

ScenarioDrain == \E cell \in ScenarioCells : Drain(cell)

ScenarioRecordTasks ==
    \E lod_shift \in Shifts, max_lod \in LODs :
        /\ ScenarioRequired(RequiredChunks(player_cell, lod_shift, max_lod))
        /\ RecordTasks(lod_shift, max_lod)

SupersedeNext ==
    \/ \E w \in Workers : Claim(w)
    \/ \E w \in Workers : Yield(w)
    \/ \E w \in Workers : Publish(w)
    \/ ScenarioDrain
    \/ ScenarioRecordTasks

Fairness ==
    /\ \A w \in Workers : WF_vars(Claim(w)) /\ WF_vars(Publish(w))
    /\ WF_vars(ScenarioDrain)
    /\ WF_vars(ScenarioRecordTasks)

SupersedeSpec == Init /\ [][SupersedeNext]_vars /\ Fairness


(***************************************************************************)
(* The analysis of one occupancy field (Chunk::new, world.rs:157-163:       *)
(* environment, shell, visibility, mesh), followed by the analysis of the  *)
(* shell itself.                                                           *)
(***************************************************************************)
FieldInit ==
    /\ StreamInit
    /\ field \in Fields
    /\ env = NoField
    /\ shell = NoField
    /\ vis = NoField
    /\ mesh = NoMesh
    /\ pass_mesh = NoMesh
    /\ shell_env = NoField
    /\ shell_shell = NoField
    /\ field_pc = "environment"
    /\ CallAtRest
    /\ LocksAtRest

\* let env = field.environment()
ComputeEnvironment ==
    /\ field_pc = "environment"
    /\ env' = Environment(field)
    /\ field_pc' = "shell"
    /\ UNCHANGED <<field, shell, vis, mesh, pass_mesh, shell_env, shell_shell, stream_vars,
                   call_vars, lock_vars>>

\* field.shell(&env)
ComputeShell ==
    /\ field_pc = "shell"
    /\ shell' = Shell(field, env)
    /\ field_pc' = "visibility"
    /\ UNCHANGED <<field, env, vis, mesh, pass_mesh, shell_env, shell_shell, stream_vars,
                   call_vars, lock_vars>>

\* env.visibility()
ComputeVisibility ==
    /\ field_pc = "visibility"
    /\ vis' = Visibility(env)
    /\ field_pc' = "mesh"
    /\ UNCHANGED <<field, env, shell, mesh, pass_mesh, shell_env, shell_shell, stream_vars,
                   call_vars, lock_vars>>

\* VoxelMesh::new(.., &shell, &vis, ..)
BuildMesh ==
    /\ field_pc = "mesh"
    /\ mesh' = VoxelMesh(shell, vis)
    /\ field_pc' = "pass_mesh"
    /\ UNCHANGED <<field, env, shell, vis, pass_mesh, shell_env, shell_shell, stream_vars,
                   call_vars, lock_vars>>

\* voxel_pass.rs, VoxelMesh::new(.., &field.shell(&env), &env.visibility(), ..)
\* as world.rs:160-167 calls it.
BuildPassMesh ==
    /\ field_pc = "pass_mesh"
    /\ pass_mesh' = VoxelPassMesh(shell, vis)
    /\ field_pc' = "shell_environment"
    /\ UNCHANGED <<field, env, shell, vis, mesh, shell_env, shell_shell, stream_vars,
                   call_vars, lock_vars>>

\* shell.environment()
ComputeShellEnvironment ==
    /\ field_pc = "shell_environment"
    /\ shell_env' = Environment(shell)
    /\ field_pc' = "shell_shell"
    /\ UNCHANGED <<field, env, shell, vis, mesh, pass_mesh, shell_shell, stream_vars,
                   call_vars, lock_vars>>

\* shell.shell(&shell_env)
ComputeShellShell ==
    /\ field_pc = "shell_shell"
    /\ shell_shell' = Shell(shell, shell_env)
    /\ field_pc' = "done"
    /\ UNCHANGED <<field, env, shell, vis, mesh, pass_mesh, shell_env, stream_vars,
                   call_vars, lock_vars>>

FieldNext ==
    \/ ComputeEnvironment
    \/ ComputeShell
    \/ ComputeVisibility
    \/ BuildMesh
    \/ BuildPassMesh
    \/ ComputeShellEnvironment
    \/ ComputeShellShell

FieldSpec == FieldInit /\ [][FieldNext]_vars

(***************************************************************************)
(* Claims about the streaming pipeline.                                    *)
(***************************************************************************)
\* The step is worker w's validate/publish step and it sends its chunk.
Sends(w) ==
    /\ worker[w].pc = "generate"
    /\ worker'[w].pc = "claim"
    /\ channel' = Append(channel, <<worker[w].key, NewChunk(worker[w].key, worker[w].lod)>>)

\* The step is worker w's validate/publish step.
Finishes(w) == worker[w].pc = "generate" /\ worker'[w].pc = "claim"

\* C1: in every reachable state no two workers are generating the same
\* (key, lod) pair.
NoDuplicateGeneration ==
    \A v, w \in Workers :
        (v # w /\ worker[v].pc = "generate" /\ worker[w].pc = "generate")
            => <<worker[v].key, worker[v].lod>> # <<worker[w].key, worker[w].lod>>

\* C2: a worker sends a chunk of LOD L for key k only if the most recent
\* reconcile pass required k at L; a finished generation that is no longer
\* required at its LOD leaves the channel as it is.
StaleNeverPublished ==
    [][\A w \in Workers :
        Finishes(w) =>
            /\ Sends(w) => Has(required_chunks, worker[w].key, worker[w].lod)
            /\ ~Has(required_chunks, worker[w].key, worker[w].lod)
                   => channel' = channel]_vars

\* C2 witness: a fresh chunk is on the channel while a superseded generation
\* of the same key is still running.
StaleInFlightFreshSent ==
    \E w \in Workers :
        /\ worker[w].pc = "generate"
        /\ ~Has(required_chunks, worker[w].key, worker[w].lod)
        /\ \E i \in 1..Len(channel) :
            /\ channel[i][1] = worker[w].key
            /\ Has(required_chunks, channel[i][1], channel[i][2].lod)

\* C3 as stated: a worker sends its chunk only if in_progress still maps the
\* key to the LOD it generated.
PublishOnlyIfInProgress ==
    [][\A w \in Workers :
        Sends(w) => Has(in_progress, worker[w].key, worker[w].lod)]_vars

\* C3 amended: a worker sends its chunk exactly if task_list still maps the
\* key to the LOD it generated, and then it removes that task; in_progress
\* does not decide it.
PublishIffListed ==
    [][\A w \in Workers :
        Finishes(w) =>
            IF Has(task_list, worker[w].key, worker[w].lod)
            THEN Sends(w) /\ worker[w].key \notin DOMAIN task_list'
            ELSE channel' = channel /\ task_list' = task_list]_vars

\* C3 witness: a worker is about to publish a listed task that in_progress
\* no longer maps to its LOD.
ListedButNotInProgress ==
    \E w \in Workers :
        /\ worker[w].pc = "generate"
        /\ Has(task_list, worker[w].key, worker[w].lod)
        /\ ~Has(in_progress, worker[w].key, worker[w].lod)

\* C4: once a drain has left key k resident at the LOD required for k, no
\* step changes the resident chunk of k while the required LOD of k stays
\* the same.
ResidentNeverRegresses ==
    [][\A k \in settled :
        (k \in DOMAIN required_chunks' /\ required_chunks'[k] = required_chunks[k])
            => (k \in DOMAIN chunks' /\ chunks'[k] = chunks[k])]_vars

\* C4 witness: a key is settled while a worker still generates another LOD
\* of it and a drain is due.
SettledWithStaleInFlight ==
    \E k \in settled, w \in Workers :
        /\ worker[w].pc = "generate"
        /\ worker[w].key = k
        /\ worker[w].lod # required_chunks[k]
        /\ main_pc = "drain"

\* Keys of the messages on the channel.
ChannelKeys == {channel[i][1] : i \in 1..Len(channel)}

\* C6: a frame's drain adds exactly the received keys to the resident map,
\* and the pass ends with the resident keys being those of them that the
\* frame requires: no chunk of a key outside the required set survives.
EvictionComplete ==
    [][/\ (main_pc = "drain" /\ main_pc' = "record")
            => DOMAIN chunks' = DOMAIN chunks \cup ChannelKeys
       /\ (main_pc = "record" /\ main_pc' = "drain")
            => /\ DOMAIN chunks' = DOMAIN chunks \cap DOMAIN required_chunks'
               /\ \A k \in DOMAIN chunks' : chunks'[k] = chunks[k]
       /\ main_pc' = main_pc => chunks' = chunks]_vars

\* C6 witness: a pass has drained a chunk of a key that the previous frame
\* did not require, and a required key is resident.
ReceivedOutsideRequired ==
    /\ main_pc = "record"
    /\ \E k \in DOMAIN chunks : k \notin DOMAIN required_chunks
    /\ \E k \in DOMAIN chunks : k \in DOMAIN required_chunks

\* C7: a worker never claims a task (k, L) while in_progress maps k to L.
NeverClaimsInProgress ==
    [][\A w \in Workers :
        (worker[w].pc = "claim" /\ worker'[w].pc = "generate")
            => ~Has(in_progress, worker'[w].key, worker'[w].lod)]_vars

\* C7 witness: a listed task is in progress at its LOD, a worker is idle and
\* another task is there to claim.
InProgressTaskListed ==
    /\ \E k \in DOMAIN task_list : Has(in_progress, k, task_list[k])
    /\ \E w \in Workers : worker[w].pc = "claim"
    /\ Eligible(task_list, in_progress) # {}

\* The scenario's change has happened: K0 is required at the superseding LOD.
Superseded == Has(required_chunks, K0, 2)

\* Once K0 is superseded, no LOD-0 chunk of K0 is on the channel and none
\* enters the resident map.
SupersededNeverInserted ==
    /\ [](Superseded =>
            \A i \in 1..Len(channel) : channel[i] # <<K0, NewChunk(K0, 0)>>)
    /\ [][Superseded =>
            (ResidentAt(chunks', K0, 0) => ResidentAt(chunks, K0, 0))]_vars

\* C5 as stated: once K0, claimed at LOD 0, is required at LOD 2 for good,
\* the LOD-0 result is never inserted into the resident map, and the
\* resident map eventually holds K0 at LOD 2 and keeps it.
SupersessionConverges ==
    /\ SupersededNeverInserted
    /\ Superseded ~> [](ResidentAt(chunks, K0, 2))

\* The required sets in which K0 is required at LOD 2.
SupersededSets ==
    {r \in {RequiredChunks(c, s, m) : c \in Cells, s \in Shifts, m \in LODs} :
        Has(r, K0, 2)}

\* C5 amended: the same, provided the whole required set eventually stops
\* changing; while a nearer key keeps changing its LOD the workers keep
\* claiming that key first.
SupersessionConvergesAtRest ==
    /\ SupersededNeverInserted
    /\ \A r \in SupersededSets :
        <>[](required_chunks = r) => <>[](ResidentAt(chunks, K0, 2))

\* C5 witness: K0 is resident at LOD 2 after a worker's LOD-0 generation of
\* K0 was superseded, and that worker is still generating.
SupersededAndResident ==
    /\ Superseded
    /\ ResidentAt(chunks, K0, 2)
    /\ Generating(K0, 0)

(***************************************************************************)
(* Claims about the field analysis.                                        *)
(***************************************************************************)
\* C8: in the visibility field of every environment field, a cell with
\* coordinate 0 on an axis has no negative face bit of that axis and a cell
\* with coordinate extent-1 has no positive face bit of that axis.
BoundaryFacesHidden ==
    vis # NoField =>
        \A co \in CellsOf(vis.extent) :
            /\ co[1] = 0 => "XN" \notin At(vis, co)
            /\ co[2] = 0 => "YN" \notin At(vis, co)
            /\ co[3] = 0 => "ZN" \notin At(vis, co)
            /\ co[1] = vis.extent - 1 => "XP" \notin At(vis, co)
            /\ co[2] = vis.extent - 1 => "YP" \notin At(vis, co)
            /\ co[3] = vis.extent - 1 => "ZP" \notin At(vis, co)

\* C8 witness: visibility has been computed for a field with an occupied
\* cell on the boundary whose outward neighbour does not exist and whose
\* mask has some inward face set.
BoundaryCellWithVisibleFace ==
    /\ vis # NoField
    /\ \E co \in CellsOf(vis.extent) :
        /\ co[1] = 0
        /\ At(field, co)
        /\ <<-1, 0, 0>> \notin At(env, co)
        /\ "XP" \in At(vis, co)

\* The field's only occupied cell is co and co lies strictly inside.
IsolatedAt(co) ==
    /\ field.extent >= 3
    /\ \A i \in 1..3 : 0 < co[i] /\ co[i] < field.extent - 1
    /\ \A c \in CellsOf(field.extent) : At(field, c) <=> c = co

\* C9: for a field of extent >= 3 whose only occupied cell lies strictly
\* inside, visibility gives that cell exactly the six face bits, shell
\* keeps that cell and no other, and the mesh holds the 36 vertices of that
\* cell's six faces and nothing else.
IsolatedCellFullyExposed ==
    \A co \in CellsOf(field.extent) :
        IsolatedAt(co) =>
            /\ vis # NoField => At(vis, co) = VisAll
            /\ shell # NoField => shell = field
            /\ field_pc \in {"shell_environment", "shell_shell", "done"} =>
                /\ mesh.count = 36
                /\ Len(mesh.vertices) = 36
                /\ \A n \in 1..36 : mesh.vertices[n].position = co
                /\ {mesh.vertices[n].face : n \in 1..36}
                       = {"X_0", "X_1", "Y_0", "Y_1", "Z_0", "Z_1"}

\* C9 witness: the mesh of a field with one isolated interior cell is built.
IsolatedCellMeshed ==
    /\ field_pc = "done"
    /\ \E co \in CellsOf(field.extent) : IsolatedAt(co)
    /\ mesh.count > 0

\* C10: with s = f.shell(f.environment()), s.shell(s.environment()) = s.
ShellIdempotent == shell_shell # NoField => shell_shell = shell

\* C10 witness: the shell has been pruned again after the first pruning
\* removed an enclosed cell and kept others.
PrunedTwice ==
    /\ shell_shell # NoField
    /\ shell # field
    /\ \E co \in CellsOf(shell.extent) : At(shell, co)

(***************************************************************************)
(* Calls of the pure functions: chunk placement (world.rs, renderer.rs),    *)
(* field construction and indexing (field.rs), frustum culling             *)
(* (renderer.rs) and symmetries (symmetry.rs).  A behaviour picks one call  *)
(* and its arguments and then makes it.                                    *)
(***************************************************************************)
\* v >> n on unsigned integers.
RECURSIVE Shr(_, _)
Shr(v, n) == IF n = 0 THEN v ELSE Shr(v \div 2, n - 1)

\* Chunk::new with a voxel scale of 1 at every fidelity.
ChunkNewUnscaled(translation, fidelity) ==
    [extent |-> Shr(N, fidelity),
     scale |-> 1,
     translation |-> [i \in 1..3 |-> N * translation[i]]]

\* Chunk::new, world.rs:62-63 and 165-166: the voxel extent of the chunk's
\* fields, and the scale and the translation of its mesh.
ChunkNew(translation, fidelity) ==
    [extent |-> Shr(N, fidelity),
     scale |-> 2 ^ fidelity,
     translation |-> [i \in 1..3 |-> N * translation[i]]]

\* renderer.rs:228: the extent of the bounding box in model space,
\* N as f32 / scale (exact while the scale is a power of two up to N).
BoundingMax(scale) == N \div scale

\* The grid positions and fidelities Chunk::new is called with.
ChunkCalls ==
    {<<"Chunk::new", <<<<x, y, z>>, fidelity>>>> :
        x \in -MaxGrid..MaxGrid, y \in -MaxGrid..MaxGrid, z \in -MaxGrid..MaxGrid,
        fidelity \in 0..MaxFidelity}

\* Chunk::new(translation, fidelity)
CallChunkNew ==
    /\ call[1] = "Chunk::new"
    /\ result = NotReturned
    /\ result' = ChunkNew(call[2][1], call[2][2])
    /\ UNCHANGED <<call, stream_vars, field_vars, lock_vars>>

\* A call that returned value, and the ways a call ends without returning.
Ok(value) == <<"ok", value>>
Panicked == <<"panic", <<>>>>
Exhausted == <<"abort: memory allocation failed", <<>>>>

\* The coordinates [0, extent)^D.
CellsIn(extent, D) == [1..D -> 0..extent - 1]

\* Field::new for a field of dimension D, f given as a function of the
\* coordinate.
FieldNewIn(extent, D, f) ==
    LET cos == Coordinates(extent, D)
    IN  [extent |-> extent, voxels |-> [i \in 1..Len(cos) |-> f[cos[i]]]]

\* How Field::new(extent, |co| co) ends.  With extent 0 the iterator still
\* yields [0; D] and then evaluates self.1 - 1 on usize 0 (field.rs:50): a
\* build with overflow checks panics, a build without wraps to usize::MAX
\* and keeps yielding coordinates until the buffer cannot grow.
FieldNewOutcomes(extent, D) ==
    IF extent = 0
    THEN {Panicked, Exhausted}
    ELSE {Ok(FieldNewIn(extent, D, [co \in CellsIn(extent, D) |-> co]))}

\* The extents and dimensions Field::new is called with.
FieldCalls == {<<"Field::new", <<extent, D>>>> : extent \in 0..MaxExtent, D \in 1..MaxDim}

\* Field::new(extent, |co| co)
CallFieldNew ==
    /\ call[1] = "Field::new"
    /\ result = NotReturned
    /\ result' \in FieldNewOutcomes(call[2][1], call[2][2])
    /\ UNCHANGED <<call, stream_vars, field_vars, lock_vars>>

\* Index::index, field.rs:18-20: self.voxels[self.linear(index)]; the Vec
\* panics iff the linear index is not below its length.
IndexOutcome(f, co) ==
    IF Linear(f.extent, co) < Len(f.voxels)
    THEN Ok(f.voxels[Linear(f.extent, co) + 1])
    ELSE Panicked

\* The field indexed: every cell holds its own coordinate.
Labelled(extent) == FieldNewIn(extent, 3, [co \in CellsIn(extent, 3) |-> co])

\* The coordinates a field of this extent is indexed with: in range and up
\* to two past the last cell on each axis.
IndexCalls ==
    {<<"index", <<extent, co>>>> :
        extent \in 1..MaxExtent, co \in [1..3 -> 0..MaxExtent + 1]}

\* field[co]
CallIndex ==
    /\ call[1] = "index"
    /\ result = NotReturned
    /\ result' = IndexOutcome(Labelled(call[2][1]), call[2][2])
    /\ UNCHANGED <<call, stream_vars, field_vars, lock_vars>>

\* plane.dot(v) of two Vector4
Dot4(p, v) == p[1] * v[1] + p[2] * v[2] + p[3] * v[3] + p[4] * v[4]

\* renderer.rs:219-225: the five planes tested, from the columns m[0..3] of
\* the transposed model-view-projection matrix (no far plane).
Planes(m) ==
    LET add(p, q) == [i \in 1..4 |-> p[i] + q[i]]
        sub(p, q) == [i \in 1..4 |-> p[i] - q[i]]
    IN  {add(m[4], m[1]),   \* left
         sub(m[4], m[1]),   \* right
         add(m[4], m[2]),   \* bottom
         sub(m[4], m[2]),   \* top
         add(m[4], m[3])}   \* near

\* renderer.rs:237-240: the 8 corners of the bounding box.
Corners(max) == {<<x, y, z, 1>> : x \in {0, max}, y \in {0, max}, z \in {0, max}}

\* The cull test with a plane rejecting only corners strictly behind it.
RenderedUnlessStrictlyBehind(m, max) ==
    ~\E plane \in Planes(m) : \A corner \in Corners(max) : Dot4(plane, corner) < 0

\* renderer.rs:236-245: the chunk is pushed to visible_chunks unless some
\* plane has plane.dot(corner) <= 0.0 for all 8 corners.
Rendered(m, max) ==
    ~\E plane \in Planes(m) : \A corner \in Corners(max) : Dot4(plane, corner) <= 0

\* The matrices (proj * view * model).transpose() tried, by their columns
\* m[0..3]: axis-aligned views translated by whole units, with an
\* orthographic or a perspective last column.
CullCalls ==
    {<<"cull", <<<< <<1, 0, 0, tx>>, <<0, 1, 0, ty>>, <<0, 0, 1, tz>>, w >>, fidelity>>>> :
        tx \in -MaxOffset..MaxOffset, ty \in -MaxOffset..MaxOffset,
        tz \in -MaxOffset..MaxOffset,
        w \in {<<0, 0, 0, 1>>, <<0, 0, 1, 0>>, <<0, 0, -1, 0>>},
        fidelity \in {f \in 0..MaxFidelity : Shr(N, f) > 0}}

\* Renderer::render, Cull Chunks, for one resident chunk of this fidelity.
CallCull ==
    /\ call[1] = "cull"
    /\ result = NotReturned
    /\ result' = Ok(Rendered(call[2][1], BoundingMax(ChunkNew(<<0, 0, 0>>, call[2][2]).scale)))
    /\ UNCHANGED <<call, stream_vars, field_vars, lock_vars>>

\* cgmath vectors, quaternions <<s, x, y, z>> and column-major matrices
\* (m[c] is column c), as symmetry.rs uses them.
Cross(u, v) ==
    <<u[2] * v[3] - u[3] * v[2], u[3] * v[1] - u[1] * v[3], u[1] * v[2] - u[2] * v[1]>>
VAdd(u, v) == [i \in 1..3 |-> u[i] + v[i]]
VScale(k, v) == [i \in 1..3 |-> k * v[i]]

\* Quaternion * Vector3 (symmetry.rs:67): v + 2 * q.v x (q.v x v + q.s * v)
QRotate(q, v) ==
    LET qv == <<q[2], q[3], q[4]>>
        tmp == VAdd(Cross(qv, v), VScale(q[1], v))
    IN  VAdd(VScale(2, Cross(qv, tmp)), v)

\* Quaternion * Quaternion (symmetry.rs:68)
QMul(p, q) ==
    <<p[1] * q[1] - p[2] * q[2] - p[3] * q[3] - p[4] * q[4],
      p[1] * q[2] + p[2] * q[1] + p[3] * q[4] - p[4] * q[3],
      p[1] * q[3] + p[3] * q[1] + p[4] * q[2] - p[2] * q[4],
      p[1] * q[4] + p[4] * q[1] + p[2] * q[3] - p[3] * q[2]>>

\* Matrix4::from(Quaternion) (symmetry.rs:23)
QMatrix(q) ==
    LET x2 == q[2] + q[2]
        y2 == q[3] + q[3]
        z2 == q[4] + q[4]
        xx2 == x2 * q[2]
        xy2 == x2 * q[3]
        xz2 == x2 * q[4]
        yy2 == y2 * q[3]
        yz2 == y2 * q[4]
        zz2 == z2 * q[4]
        sy2 == y2 * q[1]
        sz2 == z2 * q[1]
        sx2 == x2 * q[1]
    IN  << <<1 - yy2 - zz2, xy2 + sz2, xz2 - sy2, 0>>,
           <<xy2 - sz2, 1 - xx2 - zz2, yz2 + sx2, 0>>,
           <<xz2 + sy2, yz2 - sx2, 1 - xx2 - yy2, 0>>,
           <<0, 0, 0, 1>> >>

\* Matrix4 * Matrix4
MatMul(a, b) ==
    [c \in 1..4 |-> [r \in 1..4 |->
        a[1][r] * b[c][1] + a[2][r] * b[c][2] + a[3][r] * b[c][3] + a[4][r] * b[c][4]]]

\* Matrix4::from_translation and Matrix4::from_scale (symmetry.rs:89-91)
FromTranslation(t) ==
    << <<1, 0, 0, 0>>, <<0, 1, 0, 0>>, <<0, 0, 1, 0>>, <<t[1], t[2], t[3], 1>> >>
FromScale(k) ==
    << <<k, 0, 0, 0>>, <<0, k, 0, 0>>, <<0, 0, k, 0>>, <<0, 0, 0, 1>> >>

\* Symmetry::matrix
SymMatrix(self) ==
    LET m == QMatrix(self.rotation)
        col(c) == [r \in 1..4 |-> m[c][r] * self.scale]
    IN  <<col(1), col(2), col(3),
          <<self.translation[1], self.translation[2], self.translation[3], m[4][4]>> >>

\* The composition with the right translation rotated but not scaled.
SymMulUnscaled(self, rhs) ==
    [translation |-> VAdd(self.translation, QRotate(self.rotation, rhs.translation)),
     rotation |-> QMul(self.rotation, rhs.rotation),
     scale |-> self.scale * rhs.scale]

\* impl Mul for Symmetry
SymMul(self, rhs) ==
    [translation |-> VAdd(self.translation,
                          QRotate(self.rotation, VScale(self.scale, rhs.translation))),
     rotation |-> QMul(self.rotation, rhs.rotation),
     scale |-> self.scale * rhs.scale]

\* The symmetries tried: the unit quaternions with integer components (the
\* identity and the half turns about the axes, both signs), whole
\* translations of length at most MaxGrid, and the scales of the tests.
Symmetries ==
    [translation : {t \in {<<x, y, z>> : x \in 0..MaxGrid, y \in 0..MaxGrid,
                                          z \in 0..MaxGrid} :
                        t[1] + t[2] + t[3] <= MaxGrid},
     rotation : {<<1, 0, 0, 0>>, <<-1, 0, 0, 0>>, <<0, 1, 0, 0>>, <<0, -1, 0, 0>>,
                 <<0, 0, 1, 0>>, <<0, 0, -1, 0>>, <<0, 0, 0, 1>>, <<0, 0, 0, -1>>},
     scale : {2, 3}]

SymmetryCalls == {<<"Symmetry", <<a, b>>>> : a \in Symmetries, b \in Symmetries}

\* a.matrix() and (a * b).matrix()
CallSymmetry ==
    /\ call[1] = "Symmetry"
    /\ result = NotReturned
    /\ result' = Ok(<<SymMatrix(call[2][1]), SymMatrix(SymMul(call[2][1], call[2][2]))>>)
    /\ UNCHANGED <<call, stream_vars, field_vars, lock_vars>>

\* The loop of main.rs:470-483 keeping the LODs below max_lod only.
GatherRequiredBelowMax(camera_index, lod_shift, max_lod) ==
    LET generation_radius == K * 2 ^ lod_shift
        offsets == {<<x, y, z>> : x \in -generation_radius..generation_radius,
                                  y \in -generation_radius..generation_radius,
                                  z \in 0..1}
        kept == {o \in offsets : LodAt(o[1], o[2], lod_shift) < max_lod}
    IN  [c \in {<<camera_index[1] + o[1], camera_index[2] + o[2], o[3]>> : o \in kept}
            |-> LodAt(c[1] - camera_index[1], c[2] - camera_index[2], lod_shift)]

\* main.rs:466-483: required_chunks after the three loops.  Every (x, y, z)
\* gives another key c, so no insert replaces an earlier one.
GatherRequired(camera_index, lod_shift, max_lod) ==
    LET generation_radius == K * 2 ^ lod_shift
        offsets == {<<x, y, z>> : x \in -generation_radius..generation_radius,
                                  y \in -generation_radius..generation_radius,
                                  z \in 0..1}
        kept == {o \in offsets : LodAt(o[1], o[2], lod_shift) <= max_lod}
    IN  [c \in {<<camera_index[1] + o[1], camera_index[2] + o[2], o[3]>> : o \in kept}
            |-> LodAt(c[1] - camera_index[1], c[2] - camera_index[2], lod_shift)]

\* The frames the required set is gathered for: the viewer cells, and what the
\* two sliders can hold.
RequiredCalls ==
    {<<"required_chunks", <<cell, lod_shift, max_lod>>>> :
        cell \in Cells, lod_shift \in Shifts, max_lod \in LODs}

\* The gathering of one frame.
CallRequired ==
    /\ call[1] = "required_chunks"
    /\ result = NotReturned
    /\ result' = Ok(GatherRequired(call[2][1], call[2][2], call[2][3]))
    /\ UNCHANGED <<call, stream_vars, field_vars, lock_vars>>

\* The sample point of the height map without the voxel scale.
RockSampleUnscaled(translation, fidelity, cell) ==
    LET t == [i \in 1..3 |-> N * translation[i]]
    IN  <<cell[1] + t[1], cell[2] + t[2]>>

\* world.rs:62-70 and 80-81: the point at which rock_height_map samples the
\* noise for the cell [x, y]: scale * x + t.x, scale * y + t.y, in f64 (exact
\* on these whole numbers).
RockSample(translation, fidelity, cell) ==
    LET scale == 2 ^ fidelity
        t == [i \in 1..3 |-> N * translation[i]]
    IN  <<scale * cell[1] + t[1], scale * cell[2] + t[2]>>

\* world.rs:132-133: the point at which sediments samples the noise for the
\* cell [x, y, z].
SedimentSample(translation, fidelity, cell) ==
    LET scale == 2 ^ fidelity
        t == [i \in 1..3 |-> N * translation[i]]
    IN  <<scale * cell[1] + t[1], scale * cell[2] + t[2]>>

\* The cells sampled on each axis of a chunk of this extent: the first two
\* and the last.
SampledOnAxis(extent) == {0, 1, extent - 1} \cap (0..extent - 1)

\* The chunks built and the cells of their fields whose sample points are
\* followed.
SampleCalls ==
    UNION {{<<"noise.get", <<translation, fidelity, <<x, y>>>>>> :
                translation \in {<<px, py, 0>> : px \in -MaxGrid..MaxGrid,
                                                  py \in -MaxGrid..MaxGrid},
                x \in SampledOnAxis(Shr(N, fidelity)),
                y \in SampledOnAxis(Shr(N, fidelity))} :
           fidelity \in {l \in 0..MaxFidelity : Shr(N, l) > 0}}

\* Chunk::new(translation, fidelity): the two closures sample the noise for
\* the cell, if the fields of this fidelity have it.
CallSample ==
    /\ call[1] = "noise.get"
    /\ result = NotReturned
    /\ call[2][3][1] < Shr(N, call[2][2])
    /\ call[2][3][2] < Shr(N, call[2][2])
    /\ result' = Ok(<<RockSample(call[2][1], call[2][2], call[2][3]),
                      SedimentSample(call[2][1], call[2][2], call[2][3])>>)
    /\ UNCHANGED <<call, stream_vars, field_vars, lock_vars>>

CallInit ==
    /\ StreamInit
    /\ FieldAtRest
    /\ call \in ChunkCalls \cup FieldCalls \cup IndexCalls \cup CullCalls
               \cup SymmetryCalls \cup RequiredCalls \cup SampleCalls
    /\ result = NotReturned
    /\ LocksAtRest

CallNext ==
    \/ CallChunkNew
    \/ CallFieldNew
    \/ CallIndex
    \/ CallCull
    \/ CallSymmetry
    \/ CallRequired
    \/ CallSample

CallSpec == CallInit /\ [][CallNext]_vars

(***************************************************************************)
(* Claims about the pure functions.                                        *)
(***************************************************************************)
\* The call of this function has returned.
Returned(function) == call[1] = function /\ result # NotReturned

\* C11: for every LOD l with N >> l > 0 the chunk's voxel extent N >> l times
\* its voxel scale 1 << l is N, its bounding box N / scale times the scale
\* is N, and its translation is N * key: the chunk covers the world cube
\* [N * key, N * key + N) at every LOD.
FootprintConstant ==
    (Returned("Chunk::new") /\ Shr(N, call[2][2]) > 0) =>
        /\ result.extent = Shr(N, call[2][2])
        /\ result.extent * result.scale = N
        /\ BoundingMax(result.scale) * result.scale = N
        /\ \A i \in 1..3 :
            /\ result.translation[i] = N * call[2][1][i]
            /\ result.translation[i] + result.extent * result.scale
                   = N * call[2][1][i] + N

\* C11 witness: a chunk of the coarsest LOD with a voxel has been built away
\* from the origin.
CoarsestChunkBuilt ==
    /\ Returned("Chunk::new")
    /\ call[2][2] > 0
    /\ result.extent = 1
    /\ call[2][1] # <<0, 0, 0>>

\* C12: for every extent and dimension D, Field::new(extent, f) returns a
\* field whose buffer has exactly extent^D cells, the linear index maps the
\* coordinates of [0, extent)^D one-to-one onto the buffer slots,
\* field[co] = f(co) for every coordinate in range, and the k-th enumerated
\* coordinate has linear index k.
FieldConstructionContract ==
    Returned("Field::new") =>
        LET extent == call[2][1]
            D == call[2][2]
            cos == Coordinates(extent, D)
        IN  /\ result[1] = "ok"
            /\ result[2].extent = extent
            /\ Len(result[2].voxels) = extent ^ D
            /\ \A co \in CellsIn(extent, D) :
                /\ Linear(extent, co) \in 0..extent ^ D - 1
                /\ result[2].voxels[Linear(extent, co) + 1] = co
                /\ \A other \in CellsIn(extent, D) :
                    Linear(extent, other) = Linear(extent, co) => other = co
            /\ Len(cos) = extent ^ D
            /\ \A k \in 1..Len(cos) : Linear(extent, cos[k]) = k - 1

\* C13: indexing a field with a coordinate that has a component >= extent
\* panics; it never returns the value of a cell.
OutOfRangeIndexPanics ==
    (Returned("index") /\ \E i \in 1..3 : call[2][2][i] >= call[2][1])
        => result = Panicked

\* The signed distances of the 8 corners of the culled chunk's bounding box
\* to a plane.
CornerDistances(plane) ==
    {Dot4(plane, corner) : corner \in Corners(BoundingMax(2 ^ call[2][2]))}

\* C14 as stated: a chunk is left out of the draw list only if one of the
\* five planes has all 8 corners at signed distance < 0; a chunk that has,
\* for every plane, a corner at signed distance >= 0 is rendered.
CulledOnlyStrictlyOutside ==
    Returned("cull") =>
        /\ result[2] = FALSE =>
            \E plane \in Planes(call[2][1]) : \A d \in CornerDistances(plane) : d < 0
        /\ (\A plane \in Planes(call[2][1]) : \E d \in CornerDistances(plane) : d >= 0)
            => result[2] = TRUE

\* C14 amended: a chunk is left out exactly if one of the five planes has
\* all 8 corners at signed distance <= 0; a chunk is rendered exactly if
\* every plane has a corner at signed distance > 0.
CulledIffNotInFront ==
    Returned("cull") =>
        /\ result[2] = FALSE <=>
            \E plane \in Planes(call[2][1]) : \A d \in CornerDistances(plane) : d <= 0
        /\ result[2] = TRUE <=>
            \A plane \in Planes(call[2][1]) : \E d \in CornerDistances(plane) : d > 0

\* C14 witness: a chunk has been left out although every plane has a corner
\* at distance >= 0: one plane has corners on it and none in front of it.
CulledTouchingPlane ==
    /\ Returned("cull")
    /\ result[2] = FALSE
    /\ \A plane \in Planes(call[2][1]) : \E d \in CornerDistances(plane) : d >= 0
    /\ \E plane \in Planes(call[2][1]) :
        /\ 0 \in CornerDistances(plane)
        /\ \E d \in CornerDistances(plane) : d < 0

\* C15: for all symmetries a and b, a.matrix() is
\* translate(a.translation) * scale(a.scale) * rotate(a.rotation), and
\* (a * b).matrix() is a.matrix() * b.matrix().
CompositionAgreesWithMatrices ==
    Returned("Symmetry") =>
        LET a == call[2][1]
            b == call[2][2]
        IN  /\ result[2][1] = MatMul(MatMul(FromTranslation(a.translation),
                                            FromScale(a.scale)),
                                     QMatrix(a.rotation))
            /\ result[2][2] = MatMul(SymMatrix(a), SymMatrix(b))

\* C15 witness: two symmetries that both turn, move and scale have been
\* composed, and the right translation was turned by the left rotation.
TurnedAndComposed ==
    /\ Returned("Symmetry")
    /\ call[2][1].rotation = <<0, 1, 0, 0>>
    /\ call[2][2].rotation = <<0, 0, 1, 0>>
    /\ call[2][1].translation = <<1, 0, 0>>
    /\ call[2][2].translation = <<0, 1, 0>>
    /\ result[2][2][4] = <<1, -2, 0, 1>>

(***************************************************************************)
(* Claims about the reconcile pass and the claim step.                     *)
(***************************************************************************)
\* The step is the main thread's reconcile pass.
ReconcilePass == main_pc = "record" /\ main_pc' = "drain"

\* The step leaves the task (k, L) listed and it was not listed before.
Inserted(k, L) == Has(task_list', k, L) /\ ~Has(task_list, k, L)

\* C16: after every reconcile pass every listed task (k, L) has
\* required[k] = L; a task whose key left the required set or whose
\* required LOD changed is dropped in that pass.
PendingTasksRequired ==
    [][ReconcilePass =>
        /\ \A k \in DOMAIN task_list' : Has(required_chunks', k, task_list'[k])
        /\ \A k \in DOMAIN task_list :
            ~Has(required_chunks', k, task_list[k])
                => ~Has(task_list', k, task_list[k])]_vars

\* C16 witness: after a pass a worker still generates a chunk whose key has
\* left the required set, and its task is no longer listed.
TaskOfLeftKeyDropped ==
    /\ main_pc = "drain"
    /\ \E w \in Workers :
        /\ worker[w].pc = "generate"
        /\ Has(in_progress, worker[w].key, worker[w].lod)
        /\ worker[w].key \notin DOMAIN required_chunks
        /\ worker[w].key \notin DOMAIN task_list

\* C17: after every reconcile pass every required (k, L) is listed at L or
\* resident at L, and the pass inserts no task (k, L) for a chunk that is
\* resident at L.
RequiredPendingOrResident ==
    [][ReconcilePass =>
        /\ \A k \in DOMAIN required_chunks' :
            \/ Has(task_list', k, required_chunks'[k])
            \/ ResidentAt(chunks', k, required_chunks'[k])
        /\ \A k \in Keys, L \in LODs :
            Inserted(k, L) => ~ResidentAt(chunks, k, L)]_vars

\* C17 witness: of two required keys one is resident at its LOD with no
\* task listed and the other is listed at its LOD.
OneResidentOneListed ==
    \E k, j \in DOMAIN required_chunks :
        /\ ResidentAt(chunks, k, required_chunks[k])
        /\ k \notin DOMAIN task_list
        /\ Has(task_list, j, required_chunks[j])
        /\ j \notin DOMAIN chunks

NoRedundantRegeneration ==
    [][ReconcilePass =>
        \A k \in Keys, L \in LODs :
            Inserted(k, L) =>
                /\ \A i \in 1..Len(channel) : channel[i] # <<k, NewChunk(k, L)>>
                /\ ~(k \in settled /\ Has(required_chunks, k, L))]_vars

IsLodOf(L, x, y, s) ==
    /\ (L * 2 ^ s) * (L * 2 ^ s) <= x * x + y * y
    /\ x * x + y * y < ((L + 1) * 2 ^ s) * ((L + 1) * 2 ^ s)

\* The (squared horizontal distance, LOD) pairs of a required set.
LodByDistance(camera_index, required) ==
    {<<(k[1] - camera_index[1]) * (k[1] - camera_index[1])
         + (k[2] - camera_index[2]) * (k[2] - camera_index[2]), required[k]>> :
        k \in DOMAIN required}

FairScheduling ==
    /\ \A w \in Workers : WF_vars(Claim(w)) /\ WF_vars(Publish(w))
    /\ WF_vars(\E cell \in Cells : Drain(cell))
    /\ WF_vars(\E lod_shift \in Shifts, max_lod \in LODs : RecordTasks(lod_shift, max_lod))

FairSpec == Init /\ [][Next]_vars /\ FairScheduling

\* Every required chunk is resident at its LOD and no task is listed or in
\* progress.
Converged ==
    /\ \A k \in DOMAIN required_chunks : ResidentAt(chunks, k, required_chunks[k])
    /\ task_list = EmptyMap
    /\ in_progress = EmptyMap

\* C22: if the required set stops changing then, under fair scheduling,
\* every required (k, L) eventually is resident at L and the task list and
\* in_progress eventually are empty, and all of it stays so.
Convergence ==
    \/ []<><<required_chunks' # required_chunks>>_vars
    \/ <>[]Converged

\* C22 witness: the pipeline is at rest with two chunks resident at
\* different LODs after a worker has generated.
ConvergedOnTwo ==
    /\ Converged
    /\ main_pc = "drain"
    /\ \E j, k \in DOMAIN required_chunks : required_chunks[j] # required_chunks[k]
    /\ channel = <<>>

\* C23: in every reachable state, if in_progress maps k to L then some worker
\* is generating (k, L); so in_progress is empty whenever every worker is
\* idle.
InProgressLive ==
    /\ \A k \in DOMAIN in_progress : Generating(k, in_progress[k])
    /\ (\A w \in Workers : worker[w].pc = "claim") => in_progress = EmptyMap

\* C23 witness: a claim at a new LOD has overwritten the in_progress entry of
\* a generation of the same key that is still running.
InProgressOverwritten ==
    \E v, w \in Workers :
        /\ worker[v].pc = "generate" /\ worker[w].pc = "generate"
        /\ worker[v].key = worker[w].key
        /\ worker[v].lod # worker[w].lod
        /\ Has(in_progress, worker[w].key, worker[w].lod)

(***************************************************************************)
(* The locking of the threads (main.rs:108-164 and 262-543).  A behaviour   *)
(* follows each thread from one lock operation to the next; which branch   *)
(* the data selects (a task found or not, lod == 0 or not, the "Chunks"    *)
(* header open or not) is left open, so every branch the code has is       *)
(* taken.  Mutex::lock blocks until the Mutex is free; a guard is released *)
(* at the end of its statement or block.                                   *)
(***************************************************************************)
\* Thread t moves from one statement to the next without a lock operation.
Step(t, from, to) ==
    /\ thread_pc[t] = from
    /\ thread_pc' = [thread_pc EXCEPT ![t] = to]
    /\ UNCHANGED <<lock, stream_vars, field_vars, call_vars>>

\* mutex.lock(): granted when the Mutex is free.
Acquire(t, mutex, from, to) ==
    /\ thread_pc[t] = from
    /\ lock[mutex] = Nobody
    /\ lock' = [lock EXCEPT ![mutex] = t]
    /\ thread_pc' = [thread_pc EXCEPT ![t] = to]
    /\ UNCHANGED <<stream_vars, field_vars, call_vars>>

\* The guard of the Mutex is dropped.
Release(t, mutex, from, to) ==
    /\ thread_pc[t] = from
    /\ lock[mutex] = t
    /\ lock' = [lock EXCEPT ![mutex] = Nobody]
    /\ thread_pc' = [thread_pc EXCEPT ![t] = to]
    /\ UNCHANGED <<stream_vars, field_vars, call_vars>>

\* Line 110: let mut tasks = tasks.lock();
WorkerLockTasks(w) == Acquire(w, "tasks", "tasks.lock", "player_cell.lock")

\* Line 111: player_cell.lock(), inside the tasks lock
WorkerLockCell(w) == Acquire(w, "player_cell", "player_cell.lock", "read_cell")

\* Line 111: the cell is copied and the temporary guard dropped.
WorkerReadCell(w) == Release(w, "player_cell", "read_cell", "select")

\* Lines 128-132: no task; the block is left by continue, the tasks guard
\* dropped.
WorkerYield(w) == Release(w, "tasks", "select", "tasks.lock")

\* The claim block left with the tasks guard still held.
WorkerClaimKeepsLock(w) == Step(w, "select", "generate")

\* Lines 134-136: the task is marked in progress and the block ends: the
\* tasks guard is dropped.
WorkerClaim(w) == Release(w, "tasks", "select", "generate")

\* Lines 138-145: the generation, with lod # 0.
WorkerGenerate(w) == Step(w, "generate", "revalidate.lock")

\* Lines 138-142: the generation, with lod == 0.
WorkerGenerateFinest(w) == Step(w, "generate", "chunk_generation_time.lock")

\* Line 143
WorkerLockTime(w) ==
    Acquire(w, "chunk_generation_time", "chunk_generation_time.lock", "update_time")

\* Lines 144-145
WorkerUpdateTime(w) ==
    Release(w, "chunk_generation_time", "update_time", "revalidate.lock")

\* Line 149
WorkerRelockTasks(w) == Acquire(w, "tasks", "revalidate.lock", "validate")

\* Lines 150-163: validate, publish, and the block ends.
WorkerValidate(w) == Release(w, "tasks", "validate", "tasks.lock")

\* Lines 385-395: the "Chunks" header is open.
MainLockTime == Acquire(Main, "chunk_generation_time", "ui", "read_time")

\* Lines 393-396: the label is formatted and the temporary guard dropped.
MainReadTime == Release(Main, "chunk_generation_time", "read_time", "drain")

\* Lines 385-387: the "Chunks" header is collapsed.
MainSkipTime == Step(Main, "ui", "drain")

\* Lines 457-466: try_recv does not block.
MainDrain == Step(Main, "drain", "player_cell.lock")

\* Line 468: player_cell.lock()
MainLockCell == Acquire(Main, "player_cell", "player_cell.lock", "write_cell")

\* The cell written with the guard kept until the end of the frame.
MainWriteCellKeepsLock == Step(Main, "write_cell", "gather")

\* Line 468: the cell is written and the temporary guard dropped.
MainWriteCell == Release(Main, "player_cell", "write_cell", "gather")

\* Lines 470-488: gather the required chunks, evict.
MainGather == Step(Main, "gather", "tasks.lock")

\* Line 494
MainLockTasks == Acquire(Main, "tasks", "tasks.lock", "reconcile")

\* Lines 496-526: reconcile, draw the gizmos, and the block ends.
MainReconcile == Release(Main, "tasks", "reconcile", "render")

\* Lines 528-541: render; the next RedrawRequested follows.
MainRender == Step(Main, "render", "ui")

LockNext ==
    \/ \E w \in Workers : WorkerLockTasks(w)
    \/ \E w \in Workers : WorkerLockCell(w)
    \/ \E w \in Workers : WorkerReadCell(w)
    \/ \E w \in Workers : WorkerYield(w)
    \/ \E w \in Workers : WorkerClaim(w)
    \/ \E w \in Workers : WorkerGenerate(w)
    \/ \E w \in Workers : WorkerGenerateFinest(w)
    \/ \E w \in Workers : WorkerLockTime(w)
    \/ \E w \in Workers : WorkerUpdateTime(w)
    \/ \E w \in Workers : WorkerRelockTasks(w)
    \/ \E w \in Workers : WorkerValidate(w)
    \/ MainLockTime
    \/ MainReadTime
    \/ MainSkipTime
    \/ MainDrain
    \/ MainLockCell
    \/ MainWriteCell
    \/ MainGather
    \/ MainLockTasks
    \/ MainReconcile
    \/ MainRender

LockSpec == Init /\ [][LockNext]_vars

(***************************************************************************)
(* Claims about the locking.                                               *)
(***************************************************************************)
\* The Mutexes thread t holds.
Held(t) == {mutex \in DOMAIN lock : lock[mutex] = t}

\* C24: a worker that is generating holds no lock on the task tables; a
\* worker holds that lock only inside its claim block and inside its
\* validate/publish block, so the lock is free or the main thread's whenever
\* every worker is generating.
NoLockWhileGenerating ==
    /\ \A w \in Workers :
        /\ thread_pc[w] = "generate" => "tasks" \notin Held(w)
        /\ lock.tasks = w =>
            thread_pc[w] \in {"player_cell.lock", "read_cell", "select", "validate"}
    /\ (\A w \in Workers : thread_pc[w] = "generate") => lock.tasks \in {Nobody, Main}

\* C24 witness: the main thread reconciles under the lock while every worker
\* is generating.
ReconcileWhileAllGenerate ==
    /\ \A w \in Workers : thread_pc[w] = "generate"
    /\ lock.tasks = Main
    /\ thread_pc[Main] = "reconcile"

\* The Mutex thread t is about to lock, if any; the main thread at the top
\* of a frame is taken to have the "Chunks" header open.
Wanted(t) ==
    CASE thread_pc[t] \in {"tasks.lock", "revalidate.lock"} -> {"tasks"}
      [] thread_pc[t] = "player_cell.lock" -> {"player_cell"}
      [] thread_pc[t] \in {"chunk_generation_time.lock", "ui"} -> {"chunk_generation_time"}
      [] OTHER -> {}

\* Thread t waits for a Mutex another thread holds (or it holds itself).
Blocked(t) == \E mutex \in Wanted(t) : lock[mutex] # Nobody

\* C25: in no reachable state is every thread blocked waiting for a lock;
\* no thread ever waits for a lock while the holder of that lock waits for
\* a lock of the first.
DeadlockFree ==
    /\ \E t \in Threads : ~Blocked(t)
    /\ \A t, u \in Threads :
        ~(/\ Blocked(t) /\ Blocked(u)
          /\ \E mutex \in Wanted(t) : lock[mutex] = u
          /\ \E mutex \in Wanted(u) : lock[mutex] = t)

\* C25 witness: a worker inside the task-table lock waits for the viewer-cell
\* lock that the main thread holds, and another worker waits for the
\* task-table lock.
WorkersQueueBehindMain ==
    \E v, w \in Workers :
        /\ lock.tasks = v /\ thread_pc[v] = "player_cell.lock"
        /\ lock.player_cell = Main
        /\ thread_pc[w] = "tasks.lock"

(***************************************************************************)
(* Claims about the two task tables.                                       *)
(***************************************************************************)
\* C26 as stated: no key is in the task list and in in_progress at the same
\* LOD.
PendingInProgressDisjoint ==
    \A k \in DOMAIN task_list \cap DOMAIN in_progress : task_list[k] # in_progress[k]

\* The step is worker w's claim.
Claims(w) == worker[w].pc = "claim" /\ worker'[w].pc = "generate"

\* C26 amended: a claim of (k, L) leaves the task list as it is, so k is then
\* in the task list and in in_progress at the same LOD L; the task leaves the
\* list only when a worker sends the chunk of (k, L) or a reconcile pass
\* cancels it.
ClaimedTaskStaysListed ==
    [][/\ \A w \in Workers :
            Claims(w) =>
                /\ task_list' = task_list
                /\ Has(task_list', worker'[w].key, worker'[w].lod)
                /\ Has(in_progress', worker'[w].key, worker'[w].lod)
       /\ \A k \in DOMAIN task_list :
            ~Has(task_list', k, task_list[k]) =>
                \/ ReconcilePass
                \/ \E w \in Workers :
                    Sends(w) /\ worker[w].key = k /\ worker[w].lod = task_list[k]]_vars

\* C26 witness: a worker is generating a task that both tables hold at its
\* LOD while the other worker finds nothing to claim.
ClaimedAndListed ==
    \E w \in Workers :
        /\ worker[w].pc = "generate"
        /\ Has(task_list, worker[w].key, worker[w].lod)
        /\ Has(in_progress, worker[w].key, worker[w].lod)
        /\ Eligible(task_list, in_progress) = {}

(***************************************************************************)
(* Claims about the environment, the pruning and the mesh.                 *)
(***************************************************************************)
\* The coordinate lies inside [0, extent)^3.
Inside(extent, n) == \A i \in 1..3 : 0 <= n[i] /\ n[i] < extent

\* C27: once the environment is computed, for every cell c and every offset
\* o in {-1, 0, 1}^3 the environment bit of c for o is set iff c + o lies
\* inside [0, extent)^3 and the field is occupied at c + o; no neighbour
\* outside the field is read.
EnvironmentMaskExact ==
    field_pc = "shell" =>
        \A c \in CellsOf(field.extent) :
            LET mask == At(env, c)
            IN  /\ \A o \in EnvAll :
                    LET n == <<c[1] + o[1], c[2] + o[2], c[3] + o[3]>>
                    IN  o \in mask <=> (Inside(field.extent, n) /\ At(field, n))
                /\ \A n \in EnvReads(field.extent, c) : Inside(field.extent, n)

\* C27 witness: the environment of a field is computed in which a corner
\* cell has every neighbour inside the field occupied and its bits for the
\* neighbours outside clear.
CornerEnvironment ==
    /\ field_pc = "shell"
    /\ field.extent >= 2
    /\ \A o \in EnvAll :
        o \in At(env, <<0, 0, 0>>) <=> (o[1] >= 0 /\ o[2] >= 0 /\ o[3] >= 0)

\* The cell lies on the boundary of a field of this extent.
OnBoundary(extent, c) == \E i \in 1..3 : c[i] = 0 \/ c[i] = extent - 1

\* C28: once both meshes are built, every cell that shell removed is
\* occupied with all 27 environment bits set, is not on the field boundary
\* and has an empty visibility mask;
\* the mesh built from the shell has the vertices of the mesh built from the
\* unpruned field with the same visibility.
PruningKeepsMesh ==
    field_pc = "shell_environment" =>
        /\ \A c \in CellsOf(field.extent) :
            (At(field, c) /\ ~At(shell, c)) =>
                /\ At(env, c) = EnvAll
                /\ ~OnBoundary(field.extent, c)
                /\ At(vis, c) = {}
        /\ \A c \in CellsOf(field.extent) : At(shell, c) => At(field, c)
        /\ mesh = VoxelMesh(field, vis)
        /\ pass_mesh = VoxelPassMesh(field, vis)

\* C28 witness: the mesh is built from a shell that lost an enclosed cell and
\* it has faces.
MeshOfPrunedField ==
    /\ field_pc = "shell_environment"
    /\ \E c \in CellsOf(field.extent) : At(field, c) /\ ~At(shell, c)
    /\ mesh.count > 0

\* The cube face a visibility bit stands for.
FaceOf(b) ==
    CASE b = "XP" -> "X_1" [] b = "XN" -> "X_0"
      [] b = "YP" -> "Y_1" [] b = "YN" -> "Y_0"
      [] b = "ZP" -> "Z_1" [] b = "ZN" -> "Z_0"

\* The (cell, face) pairs of the occupied cells of the shell whose visibility
\* bit is set.
VisibleFaces ==
    {<<c, FaceOf(b)>> : <<c, b>> \in
        {p \in CellsOf(shell.extent) \X VisAll : At(shell, p[1]) /\ p[2] \in At(vis, p[1])}}

\* The mesh m holds exactly six vertices for each visible face and nothing
\* else, and no face on the boundary-facing side of a boundary cell.
VisibleFacesOnly(m) ==
    /\ m.count = 6 * Cardinality(VisibleFaces)
    /\ Len(m.vertices) = m.count
    /\ {<<m.vertices[n].position, m.vertices[n].face>> : n \in 1..Len(m.vertices)}
           = VisibleFaces
    /\ \A p \in VisibleFaces :
        Cardinality({n \in 1..Len(m.vertices) :
                        <<m.vertices[n].position, m.vertices[n].face>> = p}) = 6
    /\ \A n \in 1..Len(m.vertices) :
        LET c == m.vertices[n].position
            face == m.vertices[n].face
        IN  /\ face = "X_0" => c[1] # 0
            /\ face = "Y_0" => c[2] # 0
            /\ face = "Z_0" => c[3] # 0
            /\ face = "X_1" => c[1] # shell.extent - 1
            /\ face = "Y_1" => c[2] # shell.extent - 1
            /\ face = "Z_1" => c[3] # shell.extent - 1

\* C29: VoxelMesh::new, in renderer/voxels.rs and in voxel_pass.rs, emits
\* exactly 6 vertices for every (occupied cell, face) whose visibility bit is
\* set and no other vertex, so the vertex count is 6 times the number of set
\* visibility bits over the occupied cells, and no face is emitted on the
\* boundary-facing side of a cell at coordinate 0 or extent - 1.
MeshExactlyVisibleFaces ==
    field_pc \in {"shell_environment", "shell_shell", "done"} =>
        VisibleFacesOnly(mesh) /\ VisibleFacesOnly(pass_mesh)

\* The same of the builder of voxel_pass.rs alone.
PassMeshExactlyVisibleFaces ==
    field_pc \in {"shell_environment", "shell_shell", "done"} =>
        VisibleFacesOnly(pass_mesh)

(***************************************************************************)
(* Claims about the generator.                                             *)
(***************************************************************************)
\* v << n
RECURSIVE Shl(_, _)
Shl(v, n) == IF n = 0 THEN v ELSE Shl(2 * v, n - 1)

\* C30: for the local cell (x, y) of the chunk with key p at LOD l the
\* generator samples the noise at ((x << l) + N * p.x, (y << l) + N * p.y),
\* in the height map and in the sediments alike; the cell (x << l, y << l)
\* exists at LOD 0 of the same key and samples the same point.
SamplingLodConsistent ==
    Returned("noise.get") =>
        LET p == call[2][1]
            l == call[2][2]
            x == call[2][3][1]
            y == call[2][3][2]
            point == <<Shl(x, l) + N * p[1], Shl(y, l) + N * p[2]>>
        IN  /\ result[2][1] = point
            /\ result[2][2] = point
            /\ Shl(x, l) < Shr(N, 0) /\ Shl(y, l) < Shr(N, 0)
            /\ RockSample(p, 0, <<Shl(x, l), Shl(y, l)>>) = result[2][1]
            /\ SedimentSample(p, 0, <<Shl(x, l), Shl(y, l)>>) = result[2][2]

\* C30 witness: a coarse chunk away from the origin has sampled the noise
\* for a cell other than its first.
CoarseCellSampled ==
    /\ Returned("noise.get")
    /\ call[2][2] = 3
    /\ call[2][1] = <<-1, 1, 0>>
    /\ call[2][3] = <<7, 1>>
    /\ result[2][1] = <<-8, 72>>

====
